---- MODULE Spec2Model ----
(***************************************************************************)
(* The hybrid scoring and personalisation engine of the music recommender: *)
(* HybridMusicSystem (core/hybrid_system.py), ReinforcementLearningEngine  *)
(* (ml/reinforcement_learning.py) and the rows of DatabaseManager          *)
(* (database/manager.py) they read and write.                              *)
(*                                                                         *)
(* Fixed point: ratings, scores and penalties are in tenths (3.0 is 30),   *)
(* accuracies in hundredths (1.0 is 100), prediction confidence in         *)
(* thousandths and hybrid confidence in ten-thousandths, so that every     *)
(* product of the code's decimal weights is an integer.  Time is in        *)
(* seconds.                                                                *)
(***************************************************************************)
EXTENDS Integers, Sequences, FiniteSets, TLC

VARIABLES
    now,              \* datetime.now(), seconds since the process started
    feedback,         \* feedback table: per user, its well-formed and malformed rows
    interactions,     \* interactions table: per user, the logged recommendation lists, newest first
    user_models,      \* ReinforcementLearningEngine.user_models
    models_file,      \* data/models/user_models.pkl
    performance_rows, \* user_model_performance table: per user, the newest row
    user_contexts,    \* HybridMusicSystem.user_contexts
    request,          \* the arguments of a call that is about to be made, or NoRequest
    ret               \* the operation that ran last, its arguments and what it returned

vars == <<now, feedback, interactions, user_models, models_file,
          performance_rows, user_contexts, request, ret>>

-----------------------------------------------------------------------------
(* Bounds of the model *)

MaxValid == 6         \* well-formed feedback rows of a user: 0..MaxValid
MaxMalformed == 1     \* malformed feedback rows of a user: 0..MaxMalformed
MaxNow == 450         \* the clock stops advancing past MaxNow

Users == {1, 2}

\* The user whose requests arrive: a Streamlit session serves one logged-in
\* user; the other user's rows and entries exist and are never asked for.
Serving == {1}

(* Program constants *)

min_training_samples == 5
CacheTtlSeconds == 300
SecondsPerDay == 86400
SplitThreshold == 10
NeutralRating == 30
MinRating == 10
MaxRating == 50

Accuracies == {0, 100}
TimeSteps == {150}

NoModel == [kind |-> "none"]
NoContext == [kind |-> "none"]
NoRow == [kind |-> "none"]
NoRequest == [kind |-> "none"]

Min(a, b) == IF a <= b THEN a ELSE b
Max(a, b) == IF a >= b THEN a ELSE b

\* The element of a one-element set: Only({e(x) : x \in {v}}) is e(v) with v
\* worked out once, as the code works out a local variable once.
Only(S) == CHOOSE x \in S : TRUE

-----------------------------------------------------------------------------
(* The storage layer, database/manager.py *)

\* The rows of one user in the feedback table.  A row is malformed when
\* train_user_model cannot turn it into a feature vector (a NULL popularity,
\* relevance_score, track_features, track_tags or context_data column).
FeedbackTables == [valid : 0..MaxValid, malformed : 0..MaxMalformed]

\* Columns log_feedback reads with feedback_data[...]: a missing one raises
\* KeyError inside its try block.
RequiredFeedbackKeys == {"user_id", "track_id", "track_name", "artist", "rating"}

\* Columns read with feedback_data.get(...) that train_user_model later divides
\* by 100: stored as NULL when missing.
NumericFeedbackKeys == {"popularity", "relevance_score"}

get_user_feedback_count(fb, u) == fb[u].valid + fb[u].malformed

\* INSERT INTO feedback; any exception is printed and swallowed.
log_feedback(fb, u, keys) ==
    IF ~(RequiredFeedbackKeys \subseteq keys) THEN fb
    ELSE IF NumericFeedbackKeys \subseteq keys
         THEN [fb EXCEPT ![u].valid = @ + 1]
         ELSE [fb EXCEPT ![u].malformed = @ + 1]

\* SELECT f.* ... WHERE f.user_id = ?; returns [] when the query raises.
get_user_feedback_with_context(fb, u, fault) ==
    IF fault = "db_read" THEN [valid |-> 0, malformed |-> 0] ELSE fb[u]

\* SELECT * FROM interactions WHERE user_id = ? ORDER BY timestamp DESC LIMIT ?
get_recent_interactions(inter, u, limit) ==
    SubSeq(inter[u], 1, Min(limit, Len(inter[u])))

\* INSERT INTO user_model_performance; any exception is printed and swallowed.
update_user_model_stats(rows, u, accuracy, samples, fault) ==
    IF fault = "stats" THEN rows
    ELSE [rows EXCEPT ![u] = [kind |-> "row", model_accuracy |-> accuracy,
                              training_samples |-> samples]]

-----------------------------------------------------------------------------
(* ReinforcementLearningEngine, ml/reinforcement_learning.py *)

\* What can go wrong in one training run: the feedback query, fitting or
\* evaluating the regressor, opening or writing the pickle, the statistics row.
EarlyFaults == {"db_read", "fit", "evaluate"}
LateFaults == {"none", "save_open", "save_dump", "stats"}

\* One training run as the environment decides it: the fault it meets and the
\* accuracy max(0, 1 - mae/4) its evaluation yields when it gets that far.
TrainOutcomes ==
    {[fault |-> f, acc |-> 0] : f \in EarlyFaults}
        \cup {[fault |-> f, acc |-> a] : f \in LateFaults, a \in Accuracies}

NoRun == [fault |-> "none", acc |-> 0]

\* The outcomes to draw from when a training run may start, one when none can.
RunsIf(starts) == IF starts THEN TrainOutcomes ELSE {NoRun}

\* The engine's store: the resident models, the pickle and the performance table.
Store(models, file, rows) ==
    [user_models |-> models, models_file |-> file, performance_rows |-> rows]

\* pickle.dump of the whole mapping; open(..., 'wb') truncates before the dump.
_save_models(st, fault) ==
    CASE fault = "save_open" -> st
      [] fault = "save_dump" -> [st EXCEPT !.models_file = [kind |-> "truncated"]]
      [] OTHER -> [st EXCEPT !.models_file = [kind |-> "models", user_models |-> st.user_models]]

\* train_test_split(test_size=0.2): ceil(0.2 n) test rows, the rest train rows.
TestSplit(n) == (n + 4) \div 5

\* Mutant: the 80/20 split is applied whatever the number of rows.
TrainSamples_AlwaysSplit(n) == n - TestSplit(n)

TrainSamples(n) == IF n > SplitThreshold THEN n - TestSplit(n) ELSE n
TestSamples(n) == IF n > SplitThreshold THEN TestSplit(n) ELSE n

\* fitted: the rows of X the run took to the split and the regressor, 0 when
\* it returned before.
TrainFailure(st) ==
    [success |-> FALSE, accuracy |-> 0, training_samples |-> 0, fitted |-> 0, store |-> st]

\* len(feedback_data) < min_training_samples
InsufficientRecords(rows) == rows.valid + rows.malformed < min_training_samples

\* Mutant: the count of vectors that survived the skipping is not checked.
InsufficientValid_Unchecked(rows) == FALSE

\* Mutant: a row that cannot be turned into a vector ends the run.
InsufficientValid_AbortsOnMalformed(rows) ==
    rows.malformed > 0 \/ rows.valid < min_training_samples

\* len(X_features) < min_training_samples, after the malformed rows were skipped
InsufficientValid(rows) == rows.valid < min_training_samples

\* Mutant: a run whose fitting fails removes the user's model.
train_user_model_DropsOnFailure(st, fb, u, run) ==
    LET rows == get_user_feedback_with_context(fb, u, run.fault)
        n == TrainSamples(rows.valid)
        user_model == [kind |-> "model", accuracy |-> run.acc, training_samples |-> n,
                       test_samples |-> TestSamples(rows.valid)]
        installed == [st EXCEPT !.user_models[u] = user_model]
        saved == _save_models(installed, run.fault)
        logged == [saved EXCEPT !.performance_rows =
                      update_user_model_stats(saved.performance_rows, u, run.acc, n, run.fault)]
    IN  IF InsufficientRecords(rows) THEN TrainFailure(st)
        ELSE IF InsufficientValid(rows) THEN TrainFailure(st)
        ELSE IF run.fault \in {"fit", "evaluate"}
             THEN [TrainFailure([st EXCEPT !.user_models[u] = NoModel])
                      EXCEPT !.fitted = rows.valid]
        ELSE [success |-> TRUE, accuracy |-> run.acc, training_samples |-> n,
              fitted |-> rows.valid, store |-> logged]

\* Mutant: the new model is installed before it is fitted and evaluated.
train_user_model_InstallsFirst(st, fb, u, run) ==
    LET rows == get_user_feedback_with_context(fb, u, run.fault)
        n == TrainSamples(rows.valid)
        user_model == [kind |-> "model", accuracy |-> run.acc, training_samples |-> n,
                       test_samples |-> TestSamples(rows.valid)]
        installed == [st EXCEPT !.user_models[u] = user_model]
        saved == _save_models(installed, run.fault)
        logged == [saved EXCEPT !.performance_rows =
                      update_user_model_stats(saved.performance_rows, u, run.acc, n, run.fault)]
    IN  IF InsufficientRecords(rows) THEN TrainFailure(st)
        ELSE IF InsufficientValid(rows) THEN TrainFailure(st)
        ELSE IF run.fault \in {"fit", "evaluate"}
             THEN [TrainFailure(installed) EXCEPT !.fitted = rows.valid]
        ELSE [success |-> TRUE, accuracy |-> run.acc, training_samples |-> n,
              fitted |-> rows.valid, store |-> logged]

\* run is the outcome the environment decides for this run.
train_user_model(st, fb, u, run) ==
    LET rows == get_user_feedback_with_context(fb, u, run.fault)
        n == TrainSamples(rows.valid)
        user_model == [kind |-> "model", accuracy |-> run.acc, training_samples |-> n,
                       test_samples |-> TestSamples(rows.valid)]
        installed == [st EXCEPT !.user_models[u] = user_model]
        saved == _save_models(installed, run.fault)
        logged == [saved EXCEPT !.performance_rows =
                      update_user_model_stats(saved.performance_rows, u, run.acc, n, run.fault)]
    IN  IF InsufficientRecords(rows) THEN TrainFailure(st)
        ELSE IF InsufficientValid(rows) THEN TrainFailure(st)
        ELSE IF run.fault \in {"fit", "evaluate"}
             THEN [TrainFailure(st) EXCEPT !.fitted = rows.valid]
        ELSE [success |-> TRUE, accuracy |-> run.acc, training_samples |-> n,
              fitted |-> rows.valid, store |-> logged]

\* What the fitted regressor returns for one feature vector, in tenths, or the
\* exception that feature extraction, scaling or inference raises.
RawOutputs == {0, 10, 27, 50, 60}
Inferences == {[throws |-> TRUE, raw |-> 0]} \cup {[throws |-> FALSE, raw |-> r] : r \in RawOutputs}

\* Mutant: the prediction is returned as the regressor gave it.
ClampRating_Missing(r) == r

\* max(1.0, min(5.0, predicted_rating))
ClampRating(r) == Max(MinRating, Min(MaxRating, r))

\* trainings counts the training runs the call started, installed tells whether
\* one of them installed a model, raised whether an exception left the call.
predict_user_rating(st, fb, u, run, inf) ==
    LET lazy == st.user_models[u] = NoModel
        training_result == IF lazy THEN train_user_model(st, fb, u, run)
                           ELSE [success |-> TRUE, store |-> st]
        answer(r) == [rating |-> r, store |-> training_result.store,
                      trainings |-> IF lazy THEN 1 ELSE 0,
                      installed |-> lazy /\ training_result.success, raised |-> FALSE]
    IN  IF ~training_result.success THEN answer(NeutralRating)
        ELSE IF inf.throws THEN answer(NeutralRating)
        ELSE answer(ClampRating(inf.raw))

ConfidenceSaturation == 50

\* Mutant: the sample term keeps growing past 50 samples.
SampleConfidence_Unbounded(training_samples) == training_samples

\* min(1.0, training_samples / 50.0), in fiftieths
SampleConfidence(training_samples) == Min(ConfidenceSaturation, training_samples)

\* In thousandths: 0.7 * accuracy (hundredths) is 7 * accuracy, 0.3 * the sample
\* term (fiftieths) is 6 * the sample term.
get_prediction_confidence(models, u) ==
    IF models[u] = NoModel THEN 0
    ELSE LET base_confidence == models[u].accuracy
             sample_confidence == SampleConfidence(models[u].training_samples)
             confidence == 7 * base_confidence + 6 * sample_confidence
         IN  Max(0, Min(1000, confidence))

get_user_insights(models, fb, u) ==
    IF models[u] = NoModel
    THEN [model_exists |-> FALSE, training_samples |-> get_user_feedback_count(fb, u),
          model_accuracy |-> 0]
    ELSE [model_exists |-> TRUE, training_samples |-> models[u].training_samples,
          model_accuracy |-> models[u].accuracy]

-----------------------------------------------------------------------------
(* HybridMusicSystem, core/hybrid_system.py *)

RecentLimit == 20

\* (datetime.now() - cache_time).seconds: the seconds field of the timedelta,
\* which leaves out its days.
TimedeltaSeconds(d) == d % SecondsPerDay

CacheFresh(ctxs, u, t) ==
    /\ ctxs[u] # NoContext
    /\ TimedeltaSeconds(t - ctxs[u].timestamp) < CacheTtlSeconds

BuildContext(models, fb, inter, u, t) ==
    [recent_interactions |-> get_recent_interactions(inter, u, RecentLimit),
     rl_insights |-> get_user_insights(models, fb, u),
     timestamp |-> t]

_get_enhanced_user_context(ctxs, models, fb, inter, u, t) ==
    IF CacheFresh(ctxs, u, t)
    THEN [context |-> ctxs[u].context, user_contexts |-> ctxs, rebuilt |-> FALSE]
    ELSE LET context == BuildContext(models, fb, inter, u, t)
         IN  [context |-> context,
              user_contexts |-> [ctxs EXCEPT ![u] = [kind |-> "entry", context |-> context,
                                                     timestamp |-> t]],
              rebuilt |-> TRUE]

\* Mutant: only the rows training can use are counted.
_has_sufficient_training_data_WellFormed(fb, u) == fb[u].valid >= min_training_samples

\* Mutant: the gate is open for every user.
_has_sufficient_training_data_Always(fb, u) == TRUE

_has_sufficient_training_data(fb, u) ==
    get_user_feedback_count(fb, u) >= min_training_samples

\* Mutant: the whole context cache is emptied.
Invalidate_All(ctxs, u) == [v \in Users |-> NoContext]

\* del self.user_contexts[user_id]
Invalidate(ctxs, u) == [ctxs EXCEPT ![u] = NoContext]

\* The keys of the feedback_data dictionary process_feedback builds.
ProcessFeedbackKeys == {"user_id", "track_id", "rating", "feedback_text", "timestamp"}

-----------------------------------------------------------------------------
(* Candidate tracks and the diversity penalty, core/hybrid_system.py *)

\* str.lower() on the artist names and tags that occur in the model.
Lower(s) ==
    CASE s = "ABBA" -> "abba"
      [] s = "Abba" -> "abba"
      [] s = "Rock" -> "rock"
      [] OTHER -> s

\* A candidate as the ranking tool hands it over; ranking_score in tenths.
Track(name, artist, lastfm_tags, ranking_score) ==
    [name |-> name, artist |-> artist, lastfm_tags |-> lastfm_tags,
     ranking_score |-> ranking_score]

TrackPool ==
    {Track("s1", "Abba", <<"rock">>, 50),
     Track("s2", "ABBA", <<>>, 50),
     Track("s3", "blur", <<"Rock", "pop">>, 20)}

\* The recommendation lists of earlier responses, as the interactions table
\* holds them: no track, one track without tags, that track and a tagged one,
\* or one track that carries as many tags as the tag window holds.
LoggedLists ==
    {<<>>,
     <<Track("s2", "ABBA", <<>>, 50)>>,
     <<Track("s2", "ABBA", <<>>, 50), Track("s3", "blur", <<"Rock", "pop">>, 20)>>,
     <<Track("s7", "muse", <<"indie", "alternative", "british", "prog", "live",
                             "guitar", "piano", "00s", "space", "epic">>, 30)>>}

\* json.dumps / json.loads of a recommendation list: the column holds a
\* document, never the list itself.
json_dumps(value) == [kind |-> "json", value |-> value]
json_loads(document) == document.value

\* INSERT INTO interactions; the table is read back newest first.
log_interaction(inter, u, recommendations) ==
    [inter EXCEPT ![u] = <<[recommendations |-> json_dumps(recommendations)]>> \o @]

RECURSIVE Flatten(_)
Flatten(seqs) ==
    IF Len(seqs) = 0 THEN <<>> ELSE Head(seqs) \o Flatten(Tail(seqs))

Count(seq, x) == Cardinality({i \in 1..Len(seq) : seq[i] = x})
Range(seq) == {seq[i] : i \in 1..Len(seq)}
LastN(seq, n) == IF Len(seq) <= n THEN seq ELSE SubSeq(seq, Len(seq) - n + 1, Len(seq))
LowerAll(seq) == [i \in 1..Len(seq) |-> Lower(seq[i])]

\* for interaction in recent_interactions
\*     for r in json.loads(interaction.get('recommendations', '[]'))
RecentRecommendations(recent_interactions) ==
    Flatten([i \in 1..Len(recent_interactions) |->
                json_loads(recent_interactions[i].recommendations)])

ArtistWeight == 20
GenreWeight == 5
GenreWindow == 10
PenaltyCap == 100

\* Mutant: the penalty is returned without its cap.
_calculate_diversity_penalty_Uncapped(track, recent_interactions) ==
    LET recs == RecentRecommendations(recent_interactions)
        artist_count == Count([i \in 1..Len(recs) |-> Lower(recs[i].artist)],
                              Lower(track.artist))
        recent_genres == Flatten([i \in 1..Len(recs) |-> LowerAll(recs[i].lastfm_tags)])
        genre_overlap == Cardinality(Range(LowerAll(track.lastfm_tags))
                                        \cap Range(LastN(recent_genres, GenreWindow)))
    IN  ArtistWeight * artist_count + GenreWeight * genre_overlap

\* In tenths: 2.0 per occurrence of the artist, 0.5 per tag shared with the
\* last ten tags of the window, capped at 10.0.
_calculate_diversity_penalty(track, recent_interactions) ==
    LET track_artist == Lower(track.artist)
        recs == RecentRecommendations(recent_interactions)
        recent_artists == [i \in 1..Len(recs) |-> Lower(recs[i].artist)]
        artist_count == Count(recent_artists, track_artist)
        track_genres == LowerAll(track.lastfm_tags)
        recent_genres == Flatten([i \in 1..Len(recs) |-> LowerAll(recs[i].lastfm_tags)])
        genre_overlap == Cardinality(Range(track_genres)
                                        \cap Range(LastN(recent_genres, GenreWindow)))
        penalty == ArtistWeight * artist_count + GenreWeight * genre_overlap
    IN  Min(penalty, PenaltyCap)

BonusFactor == 5

\* Mutant: the bonus is taken from the rating itself, not from its distance
\* to the neutral rating.
EnhancedTrack_BonusFromZero(track, rl_prediction, diversity_penalty, rl_confidence) ==
    LET rl_bonus == rl_prediction * BonusFactor
    IN  [rl_predicted_rating |-> rl_prediction,
         rl_bonus |-> rl_bonus,
         diversity_penalty |-> diversity_penalty,
         enhanced_score |-> track.ranking_score + rl_bonus - diversity_penalty,
         rl_confidence |-> rl_confidence] @@ track

\* The fields _apply_rl_enhancement attaches: track.copy() updated with them.
EnhancedTrack(track, rl_prediction, diversity_penalty, rl_confidence) ==
    LET rl_bonus == (rl_prediction - NeutralRating) * BonusFactor
    IN  [rl_predicted_rating |-> rl_prediction,
         rl_bonus |-> rl_bonus,
         diversity_penalty |-> diversity_penalty,
         enhanced_score |-> track.ranking_score + rl_bonus - diversity_penalty,
         rl_confidence |-> rl_confidence] @@ track

\* Mutant: enhanced_track is the caller's dict itself, not a copy of it.
CallerTrackAfter_NoCopy(track, enhanced_track) == enhanced_track

\* enhanced_track = track.copy(): the update goes to the copy, so the dict in
\* the caller's list is afterwards what it was.
CallerTrackAfter(track, enhanced_track) == track

\* The loop over the candidates: each prediction may start a training run, so
\* the engine's store is threaded through; runs and infs hold, per candidate,
\* the outcome of that run and the regressor's answer.
RECURSIVE EnhanceEach(_, _, _, _, _, _, _)
EnhanceEach(st, fb, u, tracks, context, runs, infs) ==
    IF Len(tracks) = 0
    THEN [enhanced_tracks |-> <<>>, tracks |-> <<>>, store |-> st, trainings |-> 0,
          predictions |-> 0]
    ELSE Only({
           LET track == Head(tracks)
               diversity_penalty ==
                   _calculate_diversity_penalty(track, context.recent_interactions)
               enhanced_track ==
                   EnhancedTrack(track, p.rating, diversity_penalty,
                                 get_prediction_confidence(p.store.user_models, u))
           IN  Only({[enhanced_tracks |-> <<enhanced_track>> \o rest.enhanced_tracks,
                      tracks |-> <<CallerTrackAfter(track, enhanced_track)>> \o rest.tracks,
                      store |-> rest.store,
                      trainings |-> p.trainings + rest.trainings,
                      predictions |-> 1 + rest.predictions] :
                     rest \in {EnhanceEach(p.store, fb, u, Tail(tracks), context,
                                           Tail(runs), Tail(infs))}}) :
           p \in {predict_user_rating(st, fb, u, Head(runs), Head(infs))}})

\* Mutant: a track whose score is already in the list is left out.
RECURSIVE InsertByScore_DropsTies(_, _)
InsertByScore_DropsTies(sorted, x) ==
    IF Len(sorted) = 0 THEN <<x>>
    ELSE IF Head(sorted).enhanced_score = x.enhanced_score THEN sorted
    ELSE IF Head(sorted).enhanced_score > x.enhanced_score
         THEN <<Head(sorted)>> \o InsertByScore_DropsTies(Tail(sorted), x)
    ELSE <<x>> \o sorted

\* Mutant: a track goes in front of the tracks that share its score.
RECURSIVE InsertByScore_BeforeTies(_, _)
InsertByScore_BeforeTies(sorted, x) ==
    IF Len(sorted) = 0 THEN <<x>>
    ELSE IF Head(sorted).enhanced_score > x.enhanced_score
         THEN <<Head(sorted)>> \o InsertByScore_BeforeTies(Tail(sorted), x)
    ELSE <<x>> \o sorted

\* list.sort(key=enhanced_score, reverse=True) is stable: a track goes behind
\* every track already placed whose score is at least its own.
RECURSIVE InsertByScore(_, _)
InsertByScore(sorted, x) ==
    IF Len(sorted) = 0 THEN <<x>>
    ELSE IF Head(sorted).enhanced_score >= x.enhanced_score
         THEN <<Head(sorted)>> \o InsertByScore(Tail(sorted), x)
    ELSE <<x>> \o sorted

RECURSIVE SortByEnhancedScore(_)
SortByEnhancedScore(tracks) ==
    IF Len(tracks) = 0 THEN <<>>
    ELSE InsertByScore(SortByEnhancedScore(SubSeq(tracks, 1, Len(tracks) - 1)),
                       tracks[Len(tracks)])

_apply_rl_enhancement(st, fb, u, tracks, context, runs, infs) ==
    Only({[enhanced_tracks |-> SortByEnhancedScore(loop.enhanced_tracks),
           scored |-> loop.enhanced_tracks,
           tracks |-> loop.tracks,
           store |-> loop.store,
           trainings |-> loop.trainings,
           predictions |-> loop.predictions] :
          loop \in {EnhanceEach(st, fb, u, tracks, context, runs, infs)}})

LlmConfidence == 8000
WellTrainedSamples == 20
LearningSamples == 5
UntrainedConfidence == 3000
NoInsights == [kind |-> "none"]

\* context.get('rl_insights', {}) and the defaults of its two lookups, the
\* accuracy default 0.5 in hundredths.
InsightsOf(context) ==
    IF context.rl_insights = NoInsights
    THEN [training_samples |-> 0, model_accuracy |-> 50]
    ELSE context.rl_insights

\* Mutant: the weights of the blend are applied to percentages, unclamped.
_calculate_hybrid_confidence_Percent(context) ==
    LET rl_insights == InsightsOf(context)
    IN  IF rl_insights.training_samples >= LearningSamples
        THEN 60 * LlmConfidence + 40 * rl_insights.model_accuracy * 100
        ELSE 90 * LlmConfidence

\* Mutant: a model counts with its full accuracy from five samples on.
_calculate_hybrid_confidence_NoDiscount(context) ==
    LET rl_insights == InsightsOf(context)
    IN  IF rl_insights.training_samples >= LearningSamples
        THEN Min(Max((LlmConfidence * 6 + rl_insights.model_accuracy * 100 * 4) \div 10, 0),
                 10000)
        ELSE (LlmConfidence * 9) \div 10

\* In ten-thousandths: accuracy (hundredths) times 100, the weights 0.6, 0.4,
\* 0.7 and 0.9 as tenths with the product divided back.
_calculate_hybrid_confidence(context) ==
    LET rl_insights == InsightsOf(context)
        training_samples == rl_insights.training_samples
        model_accuracy == rl_insights.model_accuracy * 100
        rl_confidence ==
            IF training_samples >= WellTrainedSamples THEN model_accuracy
            ELSE IF training_samples >= LearningSamples
                 THEN (model_accuracy * 7) \div 10
            ELSE UntrainedConfidence
        hybrid_confidence ==
            IF training_samples >= LearningSamples
            THEN (LlmConfidence * 6 + rl_confidence * 4) \div 10
            ELSE (LlmConfidence * 9) \div 10
    IN  Min(Max(hybrid_confidence, 0), 10000)

FallbackScoreLlmOnly == 5000
FallbackScoreNone == 0

\* The response of _fallback_recommendations: the LLM's list cut to
\* max_results with score 0.5, or nothing with score 0.0 when the LLM fails too.
_fallback_recommendations(llm_tracks, llm_fails, max_results) ==
    IF llm_fails THEN [tracks |-> <<>>, hybrid_score |-> FallbackScoreNone]
    ELSE [tracks |-> SubSeq(llm_tracks, 1, Min(max_results, Len(llm_tracks))),
          hybrid_score |-> FallbackScoreLlmOnly]

\* tracks[:n]
Prefix(tracks, n) == SubSeq(tracks, 1, Min(n, Len(tracks)))

\* The try block of get_recommendations; every call in it catches its own
\* exceptions.  llm_tracks is llm_response['recommendations'], t the clock.
get_recommendations(ctxs, st, fb, inter, u, t, req, llm_tracks, runs, infs) ==
    LET enhances == req.use_rl_enhancement /\ _has_sufficient_training_data(fb, u)
        Untouched == [enhanced_tracks |-> llm_tracks, scored |-> <<>>, store |-> st,
                      trainings |-> 0, predictions |-> 0]
    IN  Only({
          Only({[tracks |-> Prefix(rl.enhanced_tracks, req.max_results),
                 hybrid_score |-> _calculate_hybrid_confidence(snapshot.context),
                 rl_insights |-> get_user_insights(rl.store.user_models, fb, u),
                 context |-> snapshot.context,
                 rebuilt |-> snapshot.rebuilt,
                 user_contexts |-> snapshot.user_contexts,
                 store |-> rl.store,
                 interactions |-> log_interaction(inter, u, rl.enhanced_tracks),
                 enhanced |-> enhances,
                 scored |-> rl.scored,
                 trainings |-> rl.trainings,
                 predictions |-> rl.predictions] :
                rl \in {IF enhances
                        THEN _apply_rl_enhancement(st, fb, u, llm_tracks, snapshot.context,
                                                   runs, infs)
                        ELSE Untouched}}) :
          snapshot \in {_get_enhanced_user_context(ctxs, st.user_models, fb, inter, u, t)}})

-----------------------------------------------------------------------------
(* extract_track_features, ml/reinforcement_learning.py *)

\* Fixed point of the feature vector: 1.0 is FeatureOne, so that every division
\* of the code (by 200, 60, 100, 50 and 24) is exact.
FeatureOne == 3000

\* A possibly-None value: None, or Some(v).
None == <<>>
Some(v) == <<v>>

\* dict.get(k, default); a dict is a function on its keys, {} is <<>>.
Get(d, k, default) == IF k \in DOMAIN d THEN d[k] ELSE default

\* The context argument: None, or a dict with its entries.
NoneContext == [kind |-> "None"]
DictContext(entries) == [kind |-> "dict", entries |-> entries]

\* `if context:` is false for None and for the empty dict.
Truthy(context) == context.kind = "dict" /\ DOMAIN context.entries # {}

sources == <<"deezer", "itunes", "lastfm", "musicbrainz", "audiodb">>
common_genres == <<"rock", "pop", "electronic", "jazz", "classical", "hip-hop",
                   "country", "folk">>

\* genre.lower() in tag.lower(): the genre is a substring of the tag.
GenreInTag(genre, tag) ==
    \/ Lower(tag) = genre
    \/ tag = "k-pop" /\ genre = "pop"

\* len() of the names that occur in the model.
NameLength(name) == IF name = "" THEN 0 ELSE 2

\* datetime.now().hour
HourOf(t) == (t \div 3600) % 24

Flag(b) == IF b THEN FeatureOne ELSE 0

\* The vector, or raised when popularity or relevance_score is None (None / 100.0).
\* t is the wall clock at the call.
extract_track_features(track, context, t) ==
    LET estimated_features == Get(track, "estimated_features", <<>>)
        popularity == Get(track, "popularity", Some(0))
        relevance_score == Get(track, "relevance_score", Some(0))
        source == Get(track, "source", "unknown")
        tags == Get(track, "lastfm_tags", <<>>)
        audio == <<Get(estimated_features, "energy", 1500),
                   Get(estimated_features, "valence", 1500),
                   Get(estimated_features, "danceability", 1500),
                   Get(estimated_features, "acousticness", 900),
                   Get(estimated_features, "instrumentalness", 300),
                   Get(estimated_features, "tempo", 120) * 15,
                   (Get(estimated_features, "loudness", -8) + 60) * 50>>
        metadata == <<popularity[1] * 30,
                      relevance_score[1] * 30,
                      NameLength(Get(track, "name", "")) * 60,
                      Flag(Get(track, "preview_url", "") # ""),
                      Flag(Get(track, "explicit", FALSE))>>
        source_features == [i \in 1..Len(sources) |-> Flag(source = sources[i])]
        genre_features ==
            [i \in 1..Len(common_genres) |->
                Flag(\E j \in 1..Len(tags) : GenreInTag(common_genres[i], tags[j]))]
        current_hour == HourOf(t)
        mood_data == Get(context.entries, "mood_analysis", <<>>)
        musical_context == Get(context.entries, "musical_context", <<>>)
        context_features ==
            IF Truthy(context)
            THEN <<current_hour * 125,
                   Flag(6 <= current_hour /\ current_hour <= 12),
                   Flag(12 <= current_hour /\ current_hour <= 18),
                   Flag(18 <= current_hour /\ current_hour <= 24),
                   Flag(0 <= current_hour /\ current_hour <= 6),
                   Get(mood_data, "intensity", 1500),
                   Get(mood_data, "valence", 0),
                   Get(mood_data, "arousal", 1500),
                   Get(musical_context, "energy_preference", 1500),
                   Get(musical_context, "familiarity_preference", 1500)>>
            ELSE [i \in 1..10 |-> 0]
    IN  IF popularity = None \/ relevance_score = None
        THEN [raised |-> TRUE, features |-> <<>>]
        ELSE [raised |-> FALSE,
              features |-> audio \o metadata \o source_features \o genre_features
                              \o context_features]

-----------------------------------------------------------------------------
(* The state machine *)

NoInference == [throws |-> FALSE, raw |-> 0]
NoTrack == [kind |-> "none"]

\* ret: op and user name the call, success, model_updated and value are what it
\* returned, trainings the training runs it started, rebuilt whether it built a
\* context snapshot, inference the regressor's answer it was given, track,
\* context and given the track, the snapshot and the track list it was called
\* with (the list as the call left it), scored and tracks the list it built before and after ordering it,
\* request the RecommendationRequest it served, predictions the calls of
\* predict_user_rating it made, features the vector it returned,
\* training_samples the 'training_samples' entry of a training result, run the
\* outcome that was decided for its training run and fitted the rows that run
\* took to the regressor.
Ret(op, u, success, model_updated, value, trainings, rebuilt) ==
    [op |-> op, user |-> u, success |-> success, model_updated |-> model_updated,
     value |-> value, trainings |-> trainings, rebuilt |-> rebuilt,
     inference |-> NoInference, track |-> NoTrack, context |-> NoContext,
     given |-> <<>>, scored |-> <<>>, tracks |-> <<>>,
     request |-> NoRequest, predictions |-> 0, features |-> <<>>,
     training_samples |-> 0, fitted |-> 0, run |-> NoRun]

TheStore == Store(user_models, models_file, performance_rows)

SetStore(st) ==
    /\ user_models' = st.user_models
    /\ models_file' = st.models_file
    /\ performance_rows' = st.performance_rows

\* A model _load_models finds in the pickle: trained by an earlier process.
LoadedModels ==
    {[kind |-> "model", accuracy |-> a, training_samples |-> min_training_samples,
      test_samples |-> min_training_samples] : a \in Accuracies}

RowOf(m) ==
    IF m = NoModel THEN NoRow
    ELSE [kind |-> "row", model_accuracy |-> m.accuracy, training_samples |-> m.training_samples]

\* After HybridMusicSystem.__init__: the database holds whatever rows earlier
\* sessions left, the models are those of the pickle, the context cache is empty.
Init ==
    /\ now = 0
    /\ \E fb \in [Serving -> FeedbackTables] :
          feedback = [u \in Users |-> IF u \in Serving THEN fb[u]
                                      ELSE [valid |-> 0, malformed |-> 0]]
    /\ interactions = [u \in Users |-> <<>>]
    /\ \E m \in [Serving -> {NoModel} \cup LoadedModels] :
          user_models = [u \in Users |-> IF u \in Serving THEN m[u] ELSE NoModel]
    /\ models_file = [kind |-> "models", user_models |-> user_models]
    /\ performance_rows = [u \in Users |-> RowOf(user_models[u])]
    /\ user_contexts = [u \in Users |-> NoContext]
    /\ request = NoRequest
    /\ ret = Ret("init", 0, TRUE, FALSE, 0, 0, FALSE)

Tick(d) ==
    /\ now + d <= MaxNow
    /\ now' = now + d
    /\ ret' = Ret("tick", 0, TRUE, FALSE, 0, 0, FALSE)
    /\ UNCHANGED <<feedback, interactions, user_models, models_file,
                   performance_rows, user_contexts, request>>

TrainUserModel(u) ==
    \E run \in TrainOutcomes :
        LET r == train_user_model(TheStore, feedback, u, run)
        IN  /\ SetStore(r.store)
            /\ ret' = [Ret("train_user_model", u, r.success, r.success, r.accuracy, 1,
                           FALSE) EXCEPT !.training_samples = r.training_samples,
                                         !.fitted = r.fitted, !.run = run]
            /\ UNCHANGED <<now, feedback, interactions, user_contexts, request>>

PredictUserRating(u) ==
    \E run \in RunsIf(user_models[u] = NoModel), inf \in Inferences :
        LET r == predict_user_rating(TheStore, feedback, u, run, inf)
        IN  /\ SetStore(r.store)
            /\ ret' = [Ret("predict_user_rating", u, ~r.raised, r.installed, r.rating,
                           r.trainings, FALSE) EXCEPT !.inference = inf]
            /\ UNCHANGED <<now, feedback, interactions, user_contexts, request>>

GetPredictionConfidence(u) ==
    /\ ret' = Ret("get_prediction_confidence", u, TRUE, FALSE,
                  get_prediction_confidence(user_models, u), 0, FALSE)
    /\ UNCHANGED <<now, feedback, interactions, user_models, models_file,
                   performance_rows, user_contexts, request>>

GetEnhancedUserContext(u) ==
    LET r == _get_enhanced_user_context(user_contexts, user_models, feedback,
                                        interactions, u, now)
    IN  /\ user_contexts' = r.user_contexts
        /\ ret' = Ret("_get_enhanced_user_context", u, TRUE, FALSE,
                      r.context.timestamp, 0, r.rebuilt)
        /\ UNCHANGED <<now, feedback, interactions, user_models, models_file,
                       performance_rows, request>>

ProcessFeedback(u) ==
    LET fb == log_feedback(feedback, u, ProcessFeedbackKeys)
    IN  /\ feedback' = fb
        /\ IF _has_sufficient_training_data(fb, u)
           THEN \E run \in TrainOutcomes :
                  LET r == train_user_model(TheStore, fb, u, run)
                  IN  /\ SetStore(r.store)
                      /\ user_contexts' = Invalidate(user_contexts, u)
                      /\ ret' = [Ret("process_feedback", u, TRUE, r.success, r.accuracy,
                                     1, FALSE)
                                    EXCEPT !.training_samples = r.training_samples,
                                           !.fitted = r.fitted, !.run = run]
           ELSE /\ ret' = Ret("process_feedback", u, TRUE, FALSE, 0, 0, FALSE)
                /\ UNCHANGED <<user_models, models_file, performance_rows, user_contexts>>
        /\ UNCHANGED <<now, interactions, request>>

RetrainUserModel(u) ==
    /\ IF ~_has_sufficient_training_data(feedback, u)
       THEN /\ ret' = Ret("retrain_user_model", u, FALSE, FALSE, 0, 0, FALSE)
            /\ UNCHANGED <<user_models, models_file, performance_rows, user_contexts>>
       ELSE \E run \in TrainOutcomes :
              LET r == train_user_model(TheStore, feedback, u, run)
              IN  /\ SetStore(r.store)
                  /\ user_contexts' = Invalidate(user_contexts, u)
                  /\ ret' = Ret("retrain_user_model", u, r.success, r.success, r.accuracy,
                                1, FALSE)
    /\ UNCHANGED <<now, feedback, interactions, request>>

Next ==
    \/ \E d \in TimeSteps : Tick(d)
    \/ \E u \in Serving :
          \/ TrainUserModel(u)
          \/ PredictUserRating(u)
          \/ GetPredictionConfidence(u)
          \/ GetEnhancedUserContext(u)
          \/ ProcessFeedback(u)
          \/ RetrainUserModel(u)

Spec == Init /\ [][Next]_vars

-----------------------------------------------------------------------------
(* get_prediction_confidence over every performance record training can leave *)

MaxRows == 64    \* well-formed rows an installed model was trained on: up to MaxRows

\* The models train_user_model installs from min_training_samples..MaxRows rows,
\* with every accuracy from 0.00 to 1.00.
TrainedModels ==
    {[kind |-> "model", accuracy |-> a, training_samples |-> TrainSamples(n),
      test_samples |-> TestSamples(n)] : a \in 0..100, n \in min_training_samples..MaxRows}

InitConfidence ==
    /\ now = 0
    /\ feedback = [u \in Users |-> [valid |-> 0, malformed |-> 0]]
    /\ interactions = [u \in Users |-> <<>>]
    /\ \E m \in [Serving -> {NoModel} \cup TrainedModels] :
          user_models = [u \in Users |-> IF u \in Serving THEN m[u] ELSE NoModel]
    /\ models_file = [kind |-> "models", user_models |-> user_models]
    /\ performance_rows = [u \in Users |-> RowOf(user_models[u])]
    /\ user_contexts = [u \in Users |-> NoContext]
    /\ request = NoRequest
    /\ ret = Ret("init", 0, TRUE, FALSE, 0, 0, FALSE)

NextConfidence == \E u \in Serving : GetPredictionConfidence(u)

SpecConfidence == InitConfidence /\ [][NextConfidence]_vars

-----------------------------------------------------------------------------
(* _calculate_diversity_penalty over the windows the interactions table can hold *)

MaxInteractions == 5   \* rows of a user in the interactions table: 0..MaxInteractions

InitDiversity ==
    /\ now = 0
    /\ feedback = [u \in Users |-> [valid |-> 0, malformed |-> 0]]
    /\ interactions = [u \in Users |-> <<>>]
    /\ user_models = [u \in Users |-> NoModel]
    /\ models_file = [kind |-> "models", user_models |-> user_models]
    /\ performance_rows = [u \in Users |-> NoRow]
    /\ user_contexts = [u \in Users |-> NoContext]
    /\ request = NoRequest
    /\ ret = Ret("init", 0, TRUE, FALSE, 0, 0, FALSE)

\* db_manager.log_interaction of a response's tracks.
LogInteraction(u) ==
    /\ Len(interactions[u]) < MaxInteractions
    /\ \E recommendations \in LoggedLists :
          interactions' = log_interaction(interactions, u, recommendations)
    /\ ret' = Ret("log_interaction", u, TRUE, FALSE, 0, 0, FALSE)
    /\ UNCHANGED <<now, feedback, user_models, models_file, performance_rows,
                   user_contexts, request>>

\* The penalty of one candidate against the window a fresh snapshot holds.
CalculateDiversityPenalty(u) ==
    /\ \E track \in TrackPool :
          ret' = [Ret("_calculate_diversity_penalty", u, TRUE, FALSE,
                      _calculate_diversity_penalty(track,
                          get_recent_interactions(interactions, u, RecentLimit)),
                      0, FALSE) EXCEPT !.track = track]
    /\ UNCHANGED <<now, feedback, interactions, user_models, models_file,
                   performance_rows, user_contexts, request>>

NextDiversity ==
    \E u \in Serving :
        \/ LogInteraction(u)
        \/ CalculateDiversityPenalty(u)

SpecDiversity == InitDiversity /\ [][NextDiversity]_vars

-----------------------------------------------------------------------------
(* _apply_rl_enhancement over the candidate lists the LLM stage can hand over *)

MaxCandidates == 2     \* candidates in one list: 0..MaxCandidates

TrackLists(pool, n) == UNION {[1..k -> pool] : k \in 0..n}

\* The user is one rating short of the training minimum, or has just reached it.
EnhanceTables ==
    {t \in FeedbackTables :
        t.malformed = 0 /\ t.valid \in (min_training_samples - 1)..min_training_samples}

\* The interactions table holds nothing yet, or one earlier response.
EnhanceWindows ==
    {<<>>} \cup {<<[recommendations |-> json_dumps(l)]>> : l \in LoggedLists}

\* A lazily started training run fails while fitting, or succeeds.
EnhanceRuns == {run \in TrainOutcomes : run.fault = "fit" \/ (run.fault = "none" /\ run.acc = 100)}

\* The regressor raises, or answers below, within or above the rating scale.
EnhanceInferences == {inf \in Inferences : inf.throws \/ inf.raw \in {0, 27, 60}}

\* What to draw per candidate: a run's outcome only where a run can get as far
\* as fitting, the regressor's answer only where a regressor can be asked.
RunsOf(models, fb, u) ==
    IF models[u] = NoModel /\ ~InsufficientRecords(fb[u]) /\ ~InsufficientValid(fb[u])
    THEN EnhanceRuns ELSE {NoRun}
InferencesOf(models, fb, u) ==
    IF models[u] = NoModel /\ RunsOf(models, fb, u) = {NoRun}
    THEN {NoInference} ELSE EnhanceInferences

InitEnhance ==
    /\ now = 0
    /\ \E t \in EnhanceTables :
          feedback = [u \in Users |-> IF u \in Serving THEN t
                                      ELSE [valid |-> 0, malformed |-> 0]]
    /\ \E w \in EnhanceWindows :
          interactions = [u \in Users |-> IF u \in Serving THEN w ELSE <<>>]
    /\ \E m \in {NoModel} \cup LoadedModels :
          user_models = [u \in Users |-> IF u \in Serving THEN m ELSE NoModel]
    /\ models_file = [kind |-> "models", user_models |-> user_models]
    /\ performance_rows = [u \in Users |-> RowOf(user_models[u])]
    /\ user_contexts =
          [u \in Users |->
              IF u \in Serving
              THEN [kind |-> "entry", timestamp |-> now,
                    context |-> BuildContext(user_models, feedback, interactions, u, now)]
              ELSE NoContext]
    /\ \E tracks \in TrackLists(TrackPool, MaxCandidates) :
          request = [kind |-> "enhance", tracks |-> tracks]
    /\ ret = Ret("init", 0, TRUE, FALSE, 0, 0, FALSE)

ApplyRlEnhancement(u) ==
    /\ request.kind = "enhance"
    /\ user_contexts[u] # NoContext
    /\ \E runs \in [1..Len(request.tracks) -> RunsOf(user_models, feedback, u)],
          infs \in [1..Len(request.tracks) -> InferencesOf(user_models, feedback, u)] :
          LET r == _apply_rl_enhancement(TheStore, feedback, u, request.tracks,
                                         user_contexts[u].context, runs, infs)
          IN  /\ SetStore(r.store)
              /\ ret' = [Ret("_apply_rl_enhancement", u, TRUE,
                             r.store.user_models # user_models, 0, r.trainings, FALSE)
                            EXCEPT !.given = r.tracks, !.scored = r.scored,
                                   !.tracks = r.enhanced_tracks, !.request = request]
    /\ request' = NoRequest
    /\ UNCHANGED <<now, feedback, interactions, user_contexts>>

NextEnhance == \E u \in Serving : ApplyRlEnhancement(u)

SpecEnhance == InitEnhance /\ [][NextEnhance]_vars

-----------------------------------------------------------------------------
(* The hybrid_score of a response: _calculate_hybrid_confidence and the fallback *)

MaxSamples == 21       \* training_samples of a snapshot's rl_insights: 0..MaxSamples

DefaultMaxResults == 5

InsightsValues ==
    {NoInsights} \cup [training_samples : 0..MaxSamples, model_accuracy : 0..100]

InitHybrid ==
    /\ now = 0
    /\ feedback = [u \in Users |-> [valid |-> 0, malformed |-> 0]]
    /\ interactions = [u \in Users |-> <<>>]
    /\ user_models = [u \in Users |-> NoModel]
    /\ models_file = [kind |-> "models", user_models |-> user_models]
    /\ performance_rows = [u \in Users |-> NoRow]
    /\ user_contexts = [u \in Users |-> NoContext]
    /\ \/ \E insights \in InsightsValues :
             request = [kind |-> "confidence",
                        context |-> [recent_interactions |-> <<>>,
                                     rl_insights |-> insights, timestamp |-> now]]
       \/ \E tracks \in TrackLists(TrackPool, MaxCandidates),
             max_results \in {1, DefaultMaxResults} :
             request = [kind |-> "fallback", tracks |-> tracks, max_results |-> max_results]
    /\ ret = Ret("init", 0, TRUE, FALSE, 0, 0, FALSE)

CalculateHybridConfidence(u) ==
    /\ request.kind = "confidence"
    /\ ret' = [Ret("_calculate_hybrid_confidence", u, TRUE, FALSE,
                   _calculate_hybrid_confidence(request.context), 0, FALSE)
                  EXCEPT !.context = request.context]
    /\ request' = NoRequest
    /\ UNCHANGED <<now, feedback, interactions, user_models, models_file,
                   performance_rows, user_contexts>>

\* request.tracks is the list the LLM recommender answers with when it answers.
FallbackRecommendations(u) ==
    /\ request.kind = "fallback"
    /\ \E llm_fails \in BOOLEAN :
          LET r == _fallback_recommendations(request.tracks, llm_fails, request.max_results)
          IN  ret' = [Ret("_fallback_recommendations", u, ~llm_fails, FALSE,
                          r.hybrid_score, 0, FALSE)
                         EXCEPT !.given = request.tracks, !.tracks = r.tracks]
    /\ request' = NoRequest
    /\ UNCHANGED <<now, feedback, interactions, user_models, models_file,
                   performance_rows, user_contexts>>

NextHybrid ==
    \E u \in Serving :
        \/ CalculateHybridConfidence(u)
        \/ FallbackRecommendations(u)

SpecHybrid == InitHybrid /\ [][NextHybrid]_vars

-----------------------------------------------------------------------------
(* get_recommendations, request after request *)

MaxRequests == 2       \* requests of a user the interactions table has room for

\* The user has no rating, is one short of the minimum, has the minimum with
\* one row that cannot be turned into a vector, or has the minimum well-formed.
RecTables ==
    {t \in FeedbackTables :
        \/ t.valid = 0 /\ t.malformed = 0
        \/ t.valid = min_training_samples - 1
        \/ t.valid = min_training_samples /\ t.malformed = 0}

\* The lists the LLM stage answers with.
RecLists ==
    {<<>>,
     <<Track("s2", "ABBA", <<>>, 50)>>,
     <<Track("s3", "blur", <<"Rock", "pop">>, 20), Track("s1", "Abba", <<"rock">>, 50)>>}

\* The regressor raises or answers above the scale.
RecInferences == {inf \in Inferences : inf.throws \/ inf.raw = 60}

RecRequests ==
    [kind : {"recommend"}, use_rl_enhancement : BOOLEAN, max_results : {1, DefaultMaxResults}]

InitRec ==
    /\ now = 0
    /\ \E t \in RecTables :
          feedback = [u \in Users |-> IF u \in Serving THEN t
                                      ELSE [valid |-> 0, malformed |-> 0]]
    /\ interactions = [u \in Users |-> <<>>]
    /\ \E m \in {NoModel} \cup {l \in LoadedModels : l.accuracy = 100} :
          user_models = [u \in Users |-> IF u \in Serving THEN m ELSE NoModel]
    /\ models_file = [kind |-> "models", user_models |-> user_models]
    /\ performance_rows = [u \in Users |-> RowOf(user_models[u])]
    /\ user_contexts = [u \in Users |-> NoContext]
    /\ request = NoRequest
    /\ ret = Ret("init", 0, TRUE, FALSE, 0, 0, FALSE)

\* One request drawn from requests, answered by the LLM stage with one of lists.
Recommends(u, requests, lists) ==
    /\ Len(interactions[u]) < MaxRequests
    /\ \E req \in requests, llm_tracks \in lists :
        \E runs \in [1..Len(llm_tracks) ->
                        IF req.use_rl_enhancement THEN RunsOf(user_models, feedback, u)
                        ELSE {NoRun}],
           infs \in [1..Len(llm_tracks) ->
                        IF /\ req.use_rl_enhancement
                           /\ _has_sufficient_training_data(feedback, u)
                           /\ InferencesOf(user_models, feedback, u) # {NoInference}
                        THEN RecInferences ELSE {NoInference}] :
          \E r \in {get_recommendations(user_contexts, TheStore, feedback, interactions,
                                        u, now, req, llm_tracks, runs, infs)} :
              /\ SetStore(r.store)
              /\ user_contexts' = r.user_contexts
              /\ interactions' = r.interactions
              /\ ret' = [Ret("get_recommendations", u, TRUE,
                             r.store.user_models # user_models, r.hybrid_score,
                             r.trainings, r.rebuilt)
                            EXCEPT !.given = llm_tracks, !.scored = r.scored,
                                   !.tracks = r.tracks, !.request = req,
                                   !.context = r.context,
                                   !.predictions = r.predictions]
    /\ UNCHANGED <<now, feedback, request>>

GetRecommendations(u) == Recommends(u, RecRequests, RecLists)

NextRec == \E u \in Serving : GetRecommendations(u)

SpecRec == InitRec /\ [][NextRec]_vars

-----------------------------------------------------------------------------
(* The context cache of a process that stays up for days *)

MaxDays == 1

\* The waits between two requests of a user: half the TTL, and a whole day.
CacheSteps == {150, SecondsPerDay}

\* The clock is followed for the first MaxNow seconds of each of MaxDays days.
TimePasses(d) ==
    /\ (now % SecondsPerDay) + (d % SecondsPerDay) <= MaxNow
    /\ now + d <= MaxDays * SecondsPerDay + MaxNow
    /\ now' = now + d
    /\ ret' = Ret("tick", 0, TRUE, FALSE, 0, 0, FALSE)
    /\ UNCHANGED <<feedback, interactions, user_models, models_file,
                   performance_rows, user_contexts, request>>

NextCache ==
    \/ \E d \in CacheSteps : TimePasses(d)
    \/ \E u \in Serving : GetEnhancedUserContext(u)

SpecCache == Init /\ [][NextCache]_vars

-----------------------------------------------------------------------------
(* Calls of the engine running in threads, one statement at a time.  request
   holds the threads: each one's call, the line it is at and its locals. *)

Threads == {1, 2}

EngineCalls == {"train_user_model", "predict_user_rating", "get_prediction_confidence"}

\* The outcomes of a training run drawn here: fitting raises, or the run gets
\* through with one of the accuracies.
ThreadRuns == {r \in TrainOutcomes : r.fault \in {"fit", "none"}}

ThreadTables == {[valid |-> v, malformed |-> 0] :
                    v \in {min_training_samples - 1, min_training_samples}}

\* A reference to a model record: by names the thread whose training run
\* built it, LoadedBy the pickle.
LoadedBy == 0
Reference(by, record) == [by |-> by, record |-> record]
NoReference == Reference(LoadedBy, NoModel)

IdleThread ==
    [op |-> "none", pc |-> "idle", user |-> 0, run |-> NoRun, rows |-> NoRow,
     built |-> NoModel, user_model |-> NoReference, model |-> NoReference,
     scaler |-> NoReference, result |-> 0, success |-> FALSE, trainings |-> 0,
     floor |-> LoadedBy]

EntryOf(op) ==
    CASE op = "train_user_model" -> "T133"
      [] op = "predict_user_rating" -> "P266"
      [] op = "get_prediction_confidence" -> "C296"

InitThreads ==
    /\ now = 0
    /\ \E t \in ThreadTables :
          feedback = [u \in Users |-> IF u \in Serving THEN t
                                      ELSE [valid |-> 0, malformed |-> 0]]
    /\ interactions = [u \in Users |-> <<>>]
    /\ \E m \in {NoModel} \cup {l \in LoadedModels : l.accuracy = 0} :
          user_models = [u \in Users |-> IF u \in Serving THEN m ELSE NoModel]
    /\ models_file = [kind |-> "models", user_models |-> user_models]
    /\ performance_rows = [u \in Users |-> RowOf(user_models[u])]
    /\ user_contexts = [u \in Users |-> NoContext]
    /\ request = [kind |-> "threads", threads |-> [th \in Threads |-> IdleThread],
                  loaded |-> user_models, installed_by |-> LoadedBy,
                  last_success |-> LoadedBy]
    /\ ret = Ret("init", 0, TRUE, FALSE, 0, 0, FALSE)

\* The thread th moves on to the locals t; a call that has returned reports in ret.
Step(th, t, installed_by, last_success) ==
    /\ request' = [request EXCEPT !.threads[th] = t, !.installed_by = installed_by,
                                  !.last_success = last_success]
    /\ ret' = IF t.pc = "done"
              THEN Ret(t.op, t.user, t.success, FALSE, t.result, t.trainings, FALSE)
              ELSE ret

Move(th, t) == Step(th, t, request.installed_by, request.last_success)

At(th, pc) == request.threads[th].pc = pc

\* floor: the training run that had last returned success when the call began.
StartCall(th) ==
    /\ At(th, "idle")
    /\ \E op \in EngineCalls, u \in Serving, run \in ThreadRuns :
          Move(th, [IdleThread EXCEPT !.op = op, !.pc = EntryOf(op), !.user = u,
                                      !.run = IF op = "get_prediction_confidence"
                                              THEN NoRun ELSE run,
                                      !.trainings = IF op = "train_user_model" THEN 1 ELSE 0,
                                      !.floor = request.last_success])
    /\ UNCHANGED <<now, feedback, interactions, user_models, models_file,
                   performance_rows, user_contexts>>

\* train_user_model returns to its caller: the thread's call itself, or
\* predict_user_rating at its test of training_result['success'].
TrainReturns(t, success) ==
    IF t.op = "train_user_model" THEN [t EXCEPT !.pc = "done", !.success = success]
    ELSE IF success THEN [t EXCEPT !.pc = "P273"]
    ELSE [t EXCEPT !.pc = "done", !.success = TRUE, !.result = NeutralRating]

TrainReadsFeedback(th) ==
    /\ At(th, "T133")
    /\ LET t == request.threads[th]
           rows == get_user_feedback_with_context(feedback, t.user, t.run.fault)
       IN  Move(th, IF InsufficientRecords(rows) \/ InsufficientValid(rows)
                    THEN TrainReturns(t, FALSE)
                    ELSE [t EXCEPT !.pc = "T177", !.rows = rows])
    /\ UNCHANGED <<now, feedback, interactions, user_models, models_file,
                   performance_rows, user_contexts>>

\* Splitting, scaling, fitting and evaluating, then the dict literal user_model.
TrainFits(th) ==
    /\ At(th, "T177")
    /\ LET t == request.threads[th]
       IN  Move(th, IF t.run.fault \in {"fit", "evaluate"}
                    THEN TrainReturns(t, FALSE)
                    ELSE [t EXCEPT !.pc = "T232",
                                   !.built = [kind |-> "model", accuracy |-> t.run.acc,
                                              training_samples |-> TrainSamples(t.rows.valid),
                                              test_samples |-> TestSamples(t.rows.valid)]])
    /\ UNCHANGED <<now, feedback, interactions, user_models, models_file,
                   performance_rows, user_contexts>>

\* self.user_models[user_id] = user_model
TrainInstalls(th) ==
    /\ At(th, "T232")
    /\ LET t == request.threads[th]
       IN  /\ user_models' = [user_models EXCEPT ![t.user] = t.built]
           /\ Step(th, [t EXCEPT !.pc = "T235"], th, request.last_success)
    /\ UNCHANGED <<now, feedback, interactions, models_file, performance_rows,
                   user_contexts>>

TrainSaves(th) ==
    /\ At(th, "T235")
    /\ LET t == request.threads[th]
       IN  /\ SetStore(_save_models(TheStore, t.run.fault))
           /\ Move(th, [t EXCEPT !.pc = "T238"])
    /\ UNCHANGED <<now, feedback, interactions, user_contexts>>

TrainRecordsStats(th) ==
    /\ At(th, "T238")
    /\ LET t == request.threads[th]
       IN  /\ performance_rows' =
                  update_user_model_stats(performance_rows, t.user, t.built.accuracy,
                                          t.built.training_samples, t.run.fault)
           /\ Step(th, TrainReturns(t, TRUE), request.installed_by, th)
    /\ UNCHANGED <<now, feedback, interactions, user_models, models_file,
                   user_contexts>>

\* if user_id not in self.user_models: training_result = self.train_user_model(user_id)
PredictTestsModel(th) ==
    /\ At(th, "P266")
    /\ LET t == request.threads[th]
       IN  Move(th, IF user_models[t.user] = NoModel
                    THEN [t EXCEPT !.pc = "T133", !.trainings = 1]
                    ELSE [t EXCEPT !.pc = "P273"])
    /\ UNCHANGED <<now, feedback, interactions, user_models, models_file,
                   performance_rows, user_contexts>>

\* user_model = self.user_models[user_id]; a KeyError is caught and gives 3.0.
ReadsRecord(th, at, next) ==
    /\ At(th, at)
    /\ LET t == request.threads[th]
       IN  Move(th, IF user_models[t.user] = NoModel
                    THEN [t EXCEPT !.pc = "done", !.success = TRUE,
                                   !.result = IF t.op = "predict_user_rating"
                                              THEN NeutralRating ELSE 0]
                    ELSE [t EXCEPT !.pc = next,
                                   !.user_model = Reference(request.installed_by,
                                                            user_models[t.user])])
    /\ UNCHANGED <<now, feedback, interactions, user_models, models_file,
                   performance_rows, user_contexts>>

PredictReadsRecord(th) == ReadsRecord(th, "P273", "P274")

\* model = user_model['model']
PredictTakesModel(th) ==
    /\ At(th, "P274")
    /\ LET t == request.threads[th]
       IN  Move(th, [t EXCEPT !.pc = "P275", !.model = t.user_model])
    /\ UNCHANGED <<now, feedback, interactions, user_models, models_file,
                   performance_rows, user_contexts>>

\* Mutant: the scaler is looked up in self.user_models again.
ScalerOf_LookedUpAgain(user_model, stored) == stored

\* scaler = user_model['scaler']
ScalerOf(user_model, stored) == user_model

PredictTakesScaler(th) ==
    /\ At(th, "P275")
    /\ LET t == request.threads[th]
       IN  Move(th, [t EXCEPT !.pc = "P278",
                              !.scaler = ScalerOf(t.user_model,
                                                  Reference(request.installed_by,
                                                            user_models[t.user]))])
    /\ UNCHANGED <<now, feedback, interactions, user_models, models_file,
                   performance_rows, user_contexts>>

\* Extraction, scaler.transform, model.predict and the clamp.
PredictInfers(th) ==
    /\ At(th, "P278")
    /\ \E inf \in RecInferences :
          LET t == request.threads[th]
          IN  Move(th, [t EXCEPT !.pc = "done", !.success = TRUE,
                                 !.result = IF inf.throws THEN NeutralRating
                                            ELSE ClampRating(inf.raw)])
    /\ UNCHANGED <<now, feedback, interactions, user_models, models_file,
                   performance_rows, user_contexts>>

\* if user_id not in self.user_models: return 0.0
ConfidenceTestsModel(th) ==
    /\ At(th, "C296")
    /\ LET t == request.threads[th]
       IN  Move(th, IF user_models[t.user] = NoModel
                    THEN [t EXCEPT !.pc = "done", !.success = TRUE, !.result = 0]
                    ELSE [t EXCEPT !.pc = "C300"])
    /\ UNCHANGED <<now, feedback, interactions, user_models, models_file,
                   performance_rows, user_contexts>>

ConfidenceReadsRecord(th) == ReadsRecord(th, "C300", "C301")

\* performance = user_model['performance'] and the arithmetic on it.
ConfidenceComputes(th) ==
    /\ At(th, "C301")
    /\ LET t == request.threads[th]
       IN  Move(th, [t EXCEPT !.pc = "done", !.success = TRUE, !.model = t.user_model,
                              !.scaler = t.user_model,
                              !.result = get_prediction_confidence(
                                             [u \in Users |-> t.user_model.record], t.user)])
    /\ UNCHANGED <<now, feedback, interactions, user_models, models_file,
                   performance_rows, user_contexts>>

NextThreads ==
    \E th \in Threads :
        \/ StartCall(th)
        \/ TrainReadsFeedback(th)
        \/ TrainFits(th)
        \/ TrainInstalls(th)
        \/ TrainSaves(th)
        \/ TrainRecordsStats(th)
        \/ PredictTestsModel(th)
        \/ PredictReadsRecord(th)
        \/ PredictTakesModel(th)
        \/ PredictTakesScaler(th)
        \/ PredictInfers(th)
        \/ ConfidenceTestsModel(th)
        \/ ConfidenceReadsRecord(th)
        \/ ConfidenceComputes(th)

SpecThreads == InitThreads /\ [][NextThreads]_vars

-----------------------------------------------------------------------------
(* train_user_model over feedback tables on both sides of the split threshold *)

MaxTrainRows == 12

InitTrain ==
    /\ now = 0
    /\ \E t \in [valid : 0..MaxTrainRows, malformed : 0..MaxMalformed] :
          feedback = [u \in Users |-> IF u \in Serving THEN t
                                      ELSE [valid |-> 0, malformed |-> 0]]
    /\ interactions = [u \in Users |-> <<>>]
    /\ \E m \in {NoModel} \cup {l \in LoadedModels : l.accuracy = 0} :
          user_models = [u \in Users |-> IF u \in Serving THEN m ELSE NoModel]
    /\ models_file = [kind |-> "models", user_models |-> user_models]
    /\ performance_rows = [u \in Users |-> RowOf(user_models[u])]
    /\ user_contexts = [u \in Users |-> NoContext]
    /\ request = NoRequest
    /\ ret = Ret("init", 0, TRUE, FALSE, 0, 0, FALSE)

NextTrain == \E u \in Serving : TrainUserModel(u)

SpecTrain == InitTrain /\ [][NextTrain]_vars

-----------------------------------------------------------------------------
(* Two users side by side: the first one's calls next to the second one's
   model and cached snapshot *)

\* The user none of the calls is made for.
Bystander == CHOOSE v \in Users : v \notin Serving

InitCross ==
    /\ now = 0
    /\ \E t \in ThreadTables :
          feedback = [u \in Users |-> IF u = Bystander
                                      THEN [valid |-> min_training_samples, malformed |-> 0]
                                      ELSE t]
    /\ interactions = [u \in Users |-> <<>>]
    /\ \E m \in [Users -> {NoModel} \cup {l \in LoadedModels : l.accuracy = 100}] :
          user_models = m
    /\ models_file = [kind |-> "models", user_models |-> user_models]
    /\ performance_rows = [u \in Users |-> RowOf(user_models[u])]
    /\ user_contexts = [u \in Users |-> NoContext]
    /\ request = NoRequest
    /\ ret = Ret("init", 0, TRUE, FALSE, 0, 0, FALSE)

NextCross ==
    \/ \E u \in Users : GetEnhancedUserContext(u)
    \/ \E u \in Serving :
          \/ TrainUserModel(u)
          \/ PredictUserRating(u)
          \/ ProcessFeedback(u)
          \/ RetrainUserModel(u)

SpecCross == InitCross /\ [][NextCross]_vars

-----------------------------------------------------------------------------
(* The threads of the engine while ratings keep arriving in the feedback table *)

\* A writer of the feedback table inserts one complete row.
FeedbackArrives(u) ==
    /\ feedback[u].valid < MaxValid
    /\ feedback' = log_feedback(feedback, u, RequiredFeedbackKeys \cup NumericFeedbackKeys)
    /\ ret' = Ret("log_feedback", u, TRUE, FALSE, 0, 0, FALSE)
    /\ UNCHANGED <<now, interactions, user_models, models_file, performance_rows,
                   user_contexts, request>>

NextOverlap ==
    \/ NextThreads
    \/ \E u \in Serving : FeedbackArrives(u)

SpecOverlap == InitThreads /\ [][NextOverlap]_vars

-----------------------------------------------------------------------------
(* Every operation of one process, in any order *)

\* The recommendation request is the user's first, asks for RL enhancement,
\* and the LLM stage answers it with a single candidate.
NextLife ==
    \/ \E u \in Serving :
          interactions[u] = <<>> /\
          Recommends(u, {r \in RecRequests : r.use_rl_enhancement
                                              /\ r.max_results = DefaultMaxResults},
                        {l \in RecLists : Len(l) = 1})
    \/ \E u \in Serving :
          \/ TrainUserModel(u)
          \/ PredictUserRating(u)
          \/ ProcessFeedback(u)
          \/ RetrainUserModel(u)

SpecLife == InitRec /\ [][NextLife]_vars

-----------------------------------------------------------------------------
(* extract_track_features, called again and again as the clock advances *)

MaxClockHours == 24    \* the wall clock runs from hour 0 to hour MaxClockHours

ClockSteps == {6 * 3600}

\* Candidates as the ranking tool hands them over, a track with every field the
\* extraction reads, one from a source the extraction does not know, and the
\* track train_user_model rebuilds from a feedback row whose popularity and
\* relevance_score columns are NULL.
FeatureTracks ==
    TrackPool \cup
    {[name |-> "s4", artist |-> "blur", lastfm_tags |-> <<"k-pop", "Rock">>,
      estimated_features |-> [energy |-> 2400, tempo |-> 140, loudness |-> -5],
      popularity |-> Some(70), relevance_score |-> Some(40),
      preview_url |-> "http", explicit |-> TRUE, source |-> "deezer"],
     [name |-> "s5", artist |-> "blur", lastfm_tags |-> <<>>,
      estimated_features |-> <<>>, popularity |-> Some(10),
      relevance_score |-> Some(0), source |-> "spotify"],
     [name |-> "s6", artist |-> "blur", lastfm_tags |-> <<>>,
      estimated_features |-> <<>>, popularity |-> None,
      relevance_score |-> None, source |-> "unknown"]}

\* No context, the empty context a feedback row stores, a context with one
\* mood value, a context with every value.
FeatureContexts ==
    {NoneContext,
     DictContext(<<>>),
     DictContext([mood_analysis |-> [intensity |-> 2400]]),
     DictContext([mood_analysis |-> [intensity |-> 2400, valence |-> 600,
                                     arousal |-> 900],
                  musical_context |-> [energy_preference |-> 2700,
                                       familiarity_preference |-> 300]])}

InitFeatures ==
    /\ now = 0
    /\ feedback = [u \in Users |-> [valid |-> 0, malformed |-> 0]]
    /\ interactions = [u \in Users |-> <<>>]
    /\ user_models = [u \in Users |-> NoModel]
    /\ models_file = [kind |-> "models", user_models |-> user_models]
    /\ performance_rows = [u \in Users |-> NoRow]
    /\ user_contexts = [u \in Users |-> NoContext]
    /\ \E track \in FeatureTracks, context \in FeatureContexts :
          request = [kind |-> "features", track |-> track, context |-> context]
    /\ ret = Ret("init", 0, TRUE, FALSE, 0, 0, FALSE)

\* The wall clock moves on between two calls; no operation runs.
ClockAdvances(d) ==
    /\ now + d <= MaxClockHours * 3600
    /\ now' = now + d
    /\ UNCHANGED <<feedback, interactions, user_models, models_file,
                   performance_rows, user_contexts, request, ret>>

\* One call with the arguments at hand; the same arguments can be passed again.
ExtractTrackFeatures ==
    /\ request.kind = "features"
    /\ \E r \in {extract_track_features(request.track, request.context, now)} :
          ret' = [Ret("extract_track_features", 0, ~r.raised, FALSE, 0, 0, FALSE)
                     EXCEPT !.track = request.track, !.context = request.context,
                            !.features = r.features]
    /\ UNCHANGED <<now, feedback, interactions, user_models, models_file,
                   performance_rows, user_contexts, request>>

NextFeatures ==
    \/ \E d \in ClockSteps : ClockAdvances(d)
    \/ ExtractTrackFeatures

SpecFeatures == InitFeatures /\ [][NextFeatures]_vars

-----------------------------------------------------------------------------
(* Claims *)

Trained(op) == op \in {"train_user_model", "process_feedback", "retrain_user_model",
                       "predict_user_rating"}

\* C1: after process_feedback(user, ...) returns, whatever the user's feedback
\* count, the context cache holds no snapshot of that user built before the
\* feedback (the cache holds no entry for the user at all).
C1_FeedbackInvalidatesCache ==
    ret.op = "process_feedback" => user_contexts[ret.user] = NoContext

\* C2: every process_feedback that returns success=True has stored exactly one
\* new feedback record of that user: the user's feedback count grew by one.
C2_FeedbackRecordStored ==
    [][(ret'.op = "process_feedback" /\ ret'.success)
         => get_user_feedback_count(feedback', ret'.user)
              = get_user_feedback_count(feedback, ret'.user) + 1]_vars

\* C3: with fewer than min_training_samples feedback records, or fewer than
\* min_training_samples well-formed ones, train_user_model returns success=False
\* and leaves user_models[user] exactly as it was.
C3_InsufficientSamplesKeepModel ==
    [][(/\ ret'.op = "train_user_model"
        /\ \/ get_user_feedback_count(feedback, ret'.user) < min_training_samples
           \/ feedback[ret'.user].valid < min_training_samples)
         => (~ret'.success /\ user_models'[ret'.user] = user_models[ret'.user])]_vars

\* C3 witness: a training run refused for too few well-formed rows (the table
\* itself holds enough rows) while a model is installed.
C3_Witness ==
    /\ ret.op = "train_user_model" /\ ~ret.success
    /\ get_user_feedback_count(feedback, ret.user) >= min_training_samples
    /\ feedback[ret.user].valid < min_training_samples
    /\ user_models[ret.user] # NoModel

\* C4: whenever a training run fails, whichever call started it and for whatever
\* reason, the models installed before the call are all still installed,
\* unchanged, and no new one is.
C4_FailedTrainingKeepsModel ==
    [][(Trained(ret'.op) /\ ret'.trainings > 0 /\ ~ret'.model_updated)
         => user_models' = user_models]_vars

\* C4 witness: a training run that failed on an exception (the user has enough
\* well-formed rows) while a model is installed.
C4_Witness ==
    /\ ret.op = "train_user_model" /\ ~ret.success
    /\ feedback[ret.user].valid >= min_training_samples
    /\ user_models[ret.user] # NoModel

\* C5: predict_user_rating never raises and returns a rating in [1.0, 5.0]:
\* 3.0 when no model exists and lazy training failed, 3.0 when extraction,
\* scaling or inference threw, otherwise the model output clamped to [1.0, 5.0].
C5_PredictionInRange ==
    ret.op = "predict_user_rating" =>
        /\ ret.success
        /\ ret.value \in MinRating..MaxRating
        /\ user_models[ret.user] = NoModel => ret.value = NeutralRating
        /\ ret.inference.throws => ret.value = NeutralRating
        /\ (user_models[ret.user] # NoModel /\ ~ret.inference.throws) =>
              ret.value = (IF ret.inference.raw < MinRating THEN MinRating
                           ELSE IF ret.inference.raw > MaxRating THEN MaxRating
                           ELSE ret.inference.raw)

\* C5 witness: a prediction whose model output lay above 5.0.
C5_Witness ==
    /\ ret.op = "predict_user_rating"
    /\ user_models[ret.user] # NoModel
    /\ ~ret.inference.throws /\ ret.inference.raw > MaxRating
    /\ ret.value = MaxRating

\* C6: get_prediction_confidence is 0 when the user has no model; with a model
\* it is 0.7 * accuracy + 0.3 * min(1, training_samples / 50), which lies in
\* [0, 1] and no longer grows once training_samples has reached 50.
C6_ConfidenceFormula ==
    ret.op = "get_prediction_confidence" =>
        LET m == user_models[ret.user]
        IN  /\ m = NoModel => ret.value = 0
            /\ m # NoModel =>
                 /\ 0 <= ret.value /\ ret.value <= 1000
                 /\ m.training_samples < 50 =>
                      ret.value = 7 * m.accuracy + 6 * m.training_samples
                 /\ m.training_samples >= 50 => ret.value = 7 * m.accuracy + 300

\* C6 witness: the confidence of a model trained on more than 50 samples with
\* accuracy 1.0 is 1.0.
C6_Witness ==
    /\ ret.op = "get_prediction_confidence"
    /\ user_models[ret.user] # NoModel
    /\ user_models[ret.user].training_samples > 50
    /\ user_models[ret.user].accuracy = 100
    /\ ret.value = 1000

\* The recommendations of a window, oldest interaction last, and the window
\* without the interactions whose index is not in keep.
WindowRecs(window) ==
    Flatten([i \in 1..Len(window) |-> json_loads(window[i].recommendations)])
WindowTags(window) ==
    LET recs == WindowRecs(window)
    IN  Flatten([i \in 1..Len(recs) |-> LowerAll(recs[i].lastfm_tags)])
ArtistOccurrences(track, window) ==
    LET recs == WindowRecs(window)
    IN  Cardinality({i \in 1..Len(recs) : Lower(recs[i].artist) = Lower(track.artist)})
NoTagOverlap(track, window) ==
    Range(LowerAll(track.lastfm_tags)) \cap Range(WindowTags(window)) = {}
SubWindow(window, keep) ==
    LET F[i \in 0..Len(window)] ==
            IF i = 0 THEN <<>>
            ELSE IF i \in keep THEN Append(F[i - 1], window[i]) ELSE F[i - 1]
    IN  F[Len(window)]
PenaltyWindow == get_recent_interactions(interactions, ret.user, RecentLimit)

\* C9: the diversity penalty never exceeds 10.0; it is exactly 10.0 when the
\* window holds 5 recommendations by the candidate's artist and shares no tag
\* with the candidate; and it is at least the penalty of the same candidate
\* against any window that holds the same tags and fewer (or as many)
\* recommendations by the candidate's artist.
C9_DiversityPenaltyMonotoneCapped ==
    ret.op = "_calculate_diversity_penalty" =>
        /\ ret.value <= 100
        /\ (ArtistOccurrences(ret.track, PenaltyWindow) = 5
              /\ NoTagOverlap(ret.track, PenaltyWindow)) => ret.value = 100
        /\ \A keep \in SUBSET (1..Len(PenaltyWindow)) :
              LET smaller == SubWindow(PenaltyWindow, keep)
              IN  (/\ WindowTags(smaller) = WindowTags(PenaltyWindow)
                   /\ ArtistOccurrences(ret.track, smaller)
                        <= ArtistOccurrences(ret.track, PenaltyWindow))
                    => _calculate_diversity_penalty(ret.track, smaller) <= ret.value

\* C9 witness: a candidate measured against a window with exactly 5
\* recommendations by its artist and no shared tag, and against which a window
\* with the same tags and fewer such recommendations exists.
C9_Witness ==
    /\ ret.op = "_calculate_diversity_penalty"
    /\ ArtistOccurrences(ret.track, PenaltyWindow) = 5
    /\ NoTagOverlap(ret.track, PenaltyWindow)
    /\ \E keep \in SUBSET (1..Len(PenaltyWindow)) :
          /\ WindowTags(SubWindow(PenaltyWindow, keep)) = WindowTags(PenaltyWindow)
          /\ ArtistOccurrences(ret.track, SubWindow(PenaltyWindow, keep)) = 3
          /\ _calculate_diversity_penalty(ret.track, SubWindow(PenaltyWindow, keep))
                < ret.value

\* The candidate an enhanced entry stands for: the entry without the fields the
\* enhancement attached.
CandidateOf(entry) ==
    [k \in {"name", "artist", "lastfm_tags", "ranking_score"} |-> entry[k]]
Candidates(entries) == [i \in 1..Len(entries) |-> CandidateOf(entries[i])]

\* C7: the list _apply_rl_enhancement returns has one entry per input
\* candidate, each standing for the same track: every track occurs in the
\* output as often as in the input, and an empty input returns an empty list
\* without an exception.
C7_EnhancementKeepsCandidates ==
    ret.op = "_apply_rl_enhancement" =>
        /\ ret.success
        /\ Len(ret.tracks) = Len(ret.given)
        /\ \A t \in Range(ret.given) \cup Range(Candidates(ret.tracks)) :
              Count(Candidates(ret.tracks), t) = Count(ret.given, t)
        /\ ret.given = <<>> => ret.tracks = <<>>

\* C7 witness: a list that holds the same track twice was enhanced, the two
\* entries came out with different scores.
C7_Witness ==
    /\ ret.op = "_apply_rl_enhancement"
    /\ Len(ret.given) = 2 /\ ret.given[1] = ret.given[2]
    /\ Len(ret.tracks) = 2
    /\ ret.tracks[1].enhanced_score # ret.tracks[2].enhanced_score

\* C8: the returned list is in descending order of enhanced_score, and the
\* entries that share a score stand in the order the loop over the input list
\* produced them.
C8_SortedStable ==
    ret.op = "_apply_rl_enhancement" =>
        /\ \A i, j \in 1..Len(ret.tracks) :
              i < j => ret.tracks[i].enhanced_score >= ret.tracks[j].enhanced_score
        /\ \A v \in {ret.scored[i].enhanced_score : i \in 1..Len(ret.scored)} :
              LET SameScore(e) == e.enhanced_score = v
              IN  SelectSeq(ret.tracks, SameScore) = SelectSeq(ret.scored, SameScore)

\* C8 witness: two different tracks came out of the loop with the same score
\* and were returned in their input order.
C8_Witness ==
    /\ ret.op = "_apply_rl_enhancement"
    /\ Len(ret.given) = 2 /\ ret.given[1] # ret.given[2]
    /\ Len(ret.tracks) = 2
    /\ ret.tracks[1].enhanced_score = ret.tracks[2].enhanced_score
    /\ CandidateOf(ret.tracks[1]) = ret.given[1]
    /\ CandidateOf(ret.tracks[2]) = ret.given[2]

\* C10: the hybrid_score of a response is within [0, 1]: whatever
\* _calculate_hybrid_confidence returns, for any training_samples >= 0 and
\* model_accuracy in [0, 1] and for a context without rl_insights, and the
\* score of either fallback response.
C10_HybridScoreInUnitInterval ==
    ret.op \in {"_calculate_hybrid_confidence", "_fallback_recommendations"} =>
        (0 <= ret.value /\ ret.value <= 10000)

\* C10 witness: the largest score the blend yields, 0.88 for a model of
\* accuracy 1.0 trained on at least 20 samples.
C10_Witness ==
    /\ ret.op = "_calculate_hybrid_confidence"
    /\ ret.context.rl_insights # NoInsights
    /\ ret.context.rl_insights.training_samples >= WellTrainedSamples
    /\ ret.context.rl_insights.model_accuracy = 100
    /\ ret.value = 8800

\* C11: when a get_recommendations request does not ask for RL enhancement, or
\* the user's feedback count is below min_training_samples, the response's
\* tracks are the LLM candidates in the LLM order (the first max_results of
\* them) with no field attached, no prediction was made, no training run was
\* started and the model store is as it was.
C11_GateKeepsLlmOrder ==
    (/\ ret.op = "get_recommendations"
     /\ ~(/\ ret.request.use_rl_enhancement
          /\ get_user_feedback_count(feedback, ret.user) >= min_training_samples))
      => /\ ret.tracks = Prefix(ret.given, ret.request.max_results)
         /\ ret.predictions = 0
         /\ ret.trainings = 0
         /\ ~ret.model_updated

\* C11 witness: a request that asks for RL enhancement, for a user with no
\* feedback record, answered with both LLM candidates as the LLM gave them.
C11_Witness ==
    /\ ret.op = "get_recommendations"
    /\ ret.request.use_rl_enhancement
    /\ get_user_feedback_count(feedback, ret.user) = 0
    /\ Len(ret.given) = 2
    /\ ret.tracks = ret.given

\* C12: extract_track_features returns, for every track, with or without a
\* context, a vector of exactly 35 entries; without a context its last 10
\* entries are 0 and its first 25 are those of the same track extracted with
\* any context; at most one of the 5 source entries is 1, and none is for a
\* source outside the five.
C12_FeatureVectorShape ==
    ret.op = "extract_track_features" =>
        /\ ret.success
        /\ Len(ret.features) = 35
        /\ ret.context = NoneContext =>
              /\ \A i \in 26..35 : ret.features[i] = 0
              /\ \A c \in FeatureContexts :
                    SubSeq(extract_track_features(ret.track, c, now).features, 1, 25)
                        = SubSeq(ret.features, 1, 25)
        /\ Cardinality({i \in 13..17 : ret.features[i] = FeatureOne}) <= 1
        /\ \A i \in 13..17 : ret.features[i] \in {0, FeatureOne}
        /\ (\A i \in 1..Len(sources) : Get(ret.track, "source", "unknown") # sources[i])
              => \A i \in 13..17 : ret.features[i] = 0

\* C13: two calls of extract_track_features with the same track and the same
\* context return the same vector, whenever they are made.
C13_ExtractionDeterministic ==
    [][(/\ ret.op = "extract_track_features" /\ ret'.op = "extract_track_features"
        /\ ret'.track = ret.track /\ ret'.context = ret.context)
         => ret'.features = ret.features]_vars

\* C14: _get_enhanced_user_context never returns a snapshot built 300 seconds
\* or more before the call, however old the cached entry is (ret.value is the
\* timestamp of the snapshot returned, now the time of the call).
C14_CacheStalenessBounded ==
    ret.op = "_get_enhanced_user_context" => now - ret.value < CacheTtlSeconds

\* The record a reference names: the one the pickle held, or the one the
\* naming thread's training run built.
RecordOf(by) ==
    IF by = LoadedBy THEN request.loaded[1] ELSE request.threads[by].built

\* A call of predict_user_rating or get_prediction_confidence that has
\* returned after reading a model record.
ReadAModel(t) ==
    /\ t.pc = "done"
    /\ t.op \in {"predict_user_rating", "get_prediction_confidence"}
    /\ t.model # NoReference

C16_TrainingSamplesReported ==
    (ret.op = "train_user_model" /\ ret.success) =>
        LET n == feedback[ret.user].valid
        IN  /\ n <= 10 => ret.training_samples = n
            /\ n > 10 => ret.training_samples = (4 * n) \div 5
            /\ n = 5 => ret.training_samples = 5
            /\ user_models[ret.user] # NoModel
            /\ user_models[ret.user].training_samples = ret.training_samples

\* A training run over more than ten rows succeeded and reports fewer samples
\* than rows.
C16_Witness ==
    /\ ret.op = "train_user_model" /\ ret.success
    /\ feedback[ret.user].valid > 10
    /\ ret.training_samples < feedback[ret.user].valid
    /\ user_models[ret.user].training_samples = ret.training_samples

\* C17: one get_recommendations request or one process_feedback request
\* starts at most one training run, however many candidates are scored and
\* whether or not the run succeeds.
C17_OneTrainingPerRequest ==
    ret.op \in {"get_recommendations", "process_feedback"} => ret.trainings <= 1

\* C18: after a request in which a training run succeeded and installed a
\* model, the context cache holds no snapshot of that user built before the
\* training: the cached RL insights are those of the installed model.
C18_TrainingInvalidatesCache ==
    (/\ ret.op \in {"get_recommendations", "process_feedback", "retrain_user_model"}
     /\ ret.model_updated) =>
        \/ user_contexts[ret.user] = NoContext
        \/ user_contexts[ret.user].context.rl_insights =
               get_user_insights(user_models, feedback, ret.user)

\* C19: for every candidate, rl_bonus is (predicted rating - 3.0) * 5 and
\* enhanced_score is the candidate's ranking_score plus rl_bonus minus
\* diversity_penalty; a predicted rating of 3.0 gives bonus 0, and that is what
\* every candidate gets when the user has no model after the call.
C19_BonusAndScore ==
    ret.op = "_apply_rl_enhancement" =>
        /\ Len(ret.scored) = Len(ret.request.tracks)
        /\ \A i \in 1..Len(ret.scored) :
              LET e == ret.scored[i]
              IN  /\ e.rl_bonus = (e.rl_predicted_rating - 30) * 5
                  /\ e.enhanced_score =
                         ret.request.tracks[i].ranking_score + e.rl_bonus - e.diversity_penalty
                  /\ e.rl_predicted_rating = 30 => e.rl_bonus = 0
                  /\ user_models[ret.user] = NoModel =>
                         e.rl_predicted_rating = 30 /\ e.rl_bonus = 0

\* One candidate was predicted 3.0 and got bonus 0, another got a bonus and a
\* diversity penalty that both differ from 0.
C19_Witness ==
    /\ ret.op = "_apply_rl_enhancement"
    /\ \E i, j \in 1..Len(ret.scored) :
          /\ ret.scored[i].rl_predicted_rating = 30 /\ ret.scored[i].rl_bonus = 0
          /\ ret.scored[j].rl_bonus # 0 /\ ret.scored[j].diversity_penalty > 0

DerivedFields ==
    {"rl_predicted_rating", "rl_bonus", "diversity_penalty", "enhanced_score", "rl_confidence"}

\* C20: _apply_rl_enhancement leaves the caller's list and its tracks as they
\* were, every output track has the fields of its input track with the same
\* values next to the five derived ones, and the list returned holds exactly
\* those output tracks.
C20_InputsUntouched ==
    ret.op = "_apply_rl_enhancement" =>
        /\ ret.given = ret.request.tracks
        /\ Len(ret.scored) = Len(ret.request.tracks)
        /\ \A i \in 1..Len(ret.scored) :
              LET in == ret.request.tracks[i]
                  out == ret.scored[i]
              IN  /\ (DOMAIN in) \ DerivedFields = (DOMAIN out) \ DerivedFields
                  /\ \A k \in (DOMAIN out) \ DerivedFields : out[k] = in[k]
        /\ Len(ret.tracks) = Len(ret.scored)
        /\ \A e \in Range(ret.scored) : Count(ret.tracks, e) = Count(ret.scored, e)

\* Two candidates were enhanced, their scores moved away from their
\* ranking_score and the order of the list returned is not the input's.
C20_Witness ==
    /\ ret.op = "_apply_rl_enhancement"
    /\ Len(ret.request.tracks) = 2
    /\ ret.tracks[1] = ret.scored[2]
    /\ ret.tracks[1] # ret.scored[1]
    /\ \A i \in 1..2 : ret.scored[i].enhanced_score # ret.request.tracks[i].ranking_score

\* C21: with n the training_samples and a the model_accuracy of the
\* snapshot's rl_insights, _calculate_hybrid_confidence returns
\* 0.6 * 0.8 + 0.4 * a when n >= 20, 0.6 * 0.8 + 0.4 * 0.7 * a when
\* 5 <= n < 20 and 0.72 when n < 5, clamped to [0, 1] (ten-thousandths, a in
\* hundredths).
C21_HybridConfidenceFormula ==
    (ret.op = "_calculate_hybrid_confidence" /\ ret.context.rl_insights # NoInsights) =>
        LET n == ret.context.rl_insights.training_samples
            a == ret.context.rl_insights.model_accuracy
            clamp(x) == IF x < 0 THEN 0 ELSE IF x > 10000 THEN 10000 ELSE x
        IN  /\ n >= 20 => ret.value = clamp(4800 + 40 * a)
            /\ (5 <= n /\ n < 20) => ret.value = clamp(4800 + 28 * a)
            /\ n < 5 => ret.value = 7200

\* A model of accuracy 0.5 trained on 5..19 samples scored 0.62.
C21_Witness ==
    /\ ret.op = "_calculate_hybrid_confidence"
    /\ ret.context.rl_insights # NoInsights
    /\ ret.context.rl_insights.training_samples \in 5..19
    /\ ret.context.rl_insights.model_accuracy = 50
    /\ ret.value = 6200

FirstN(seq, n) == SubSeq(seq, 1, Min(n, Len(seq)))

\* C22: the tag part of the penalty is 0.5 per distinct tag of the candidate
\* found among the 10 most recently seen tags, the first ten tags of the
\* window as get_recent_interactions delivers it (most recent interaction
\* first); with 2.0 per occurrence of the artist and the cap that gives the
\* whole penalty.
C22_TagsOfMostRecent ==
    ret.op = "_calculate_diversity_penalty" =>
        LET recent == Range(FirstN(WindowTags(PenaltyWindow), 10))
            overlap == Cardinality(Range(LowerAll(ret.track.lastfm_tags)) \cap recent)
        IN  ret.value = Min(100, 20 * ArtistOccurrences(ret.track, PenaltyWindow)
                                   + 5 * overlap)

C24_OtherUsersUntouched ==
    [][ret'.op \in {"train_user_model", "predict_user_rating", "process_feedback",
                    "retrain_user_model"}
          => \A v \in Users \ {ret'.user} :
                /\ user_models'[v] = user_models[v]
                /\ user_contexts'[v] = user_contexts[v]]_vars

\* A process_feedback of user 1 installed a model and emptied that user's
\* cache entry while the other user has a model and a cached snapshot.
C24_Witness ==
    /\ ret.op = "process_feedback" /\ ret.user = 1 /\ ret.model_updated
    /\ user_models[1] # NoModel
    /\ user_contexts[1] = NoContext
    /\ user_models[Bystander] # NoModel
    /\ user_contexts[Bystander] # NoContext

\* C25: process_feedback starts a training run exactly when the user's
\* feedback count after recording the rating is at least
\* min_training_samples; it then reports model_updated exactly when that run
\* succeeded (it fitted its rows and nothing failed before the model was
\* installed, the user then holding the model of that run); below the minimum
\* it starts no run, reports model_updated false and leaves the model store
\* as it was.
C25_FeedbackTrainsAtThreshold ==
    [][ret'.op = "process_feedback" =>
          LET u == ret'.user
              count == feedback'[u].valid + feedback'[u].malformed
          IN  /\ ret'.trainings = IF count >= 5 THEN 1 ELSE 0
              /\ count >= 5 =>
                    /\ ret'.model_updated <=>
                           (ret'.fitted > 0 /\ ret'.run.fault \notin {"fit", "evaluate"})
                    /\ ret'.model_updated =>
                           /\ user_models'[u] # NoModel
                           /\ user_models'[u].accuracy = ret'.run.acc
                           /\ user_models'[u].training_samples = ret'.training_samples
                    /\ ~ret'.model_updated => user_models' = user_models
              /\ count < 5 =>
                    /\ ~ret'.model_updated
                    /\ user_models' = user_models
                    /\ models_file' = models_file
                    /\ performance_rows' = performance_rows]_vars

\* A process_feedback at the threshold started a run that failed on a
\* malformed row: five rows counted, four usable, model_updated false.
C25_Witness ==
    /\ ret.op = "process_feedback"
    /\ feedback[ret.user].valid + feedback[ret.user].malformed = 5
    /\ feedback[ret.user].malformed = 1
    /\ ret.trainings = 1
    /\ ~ret.model_updated

\* C26: when two train_user_model calls for one user have both returned
\* success and one of them read a more recent feedback set (more rows) than
\* the other, the model installed and the model persisted are the ones that
\* call built: the run over the older set does not overwrite it.
C26_NewerTrainingWins ==
    \A a \in Threads, b \in Threads :
        LET older == request.threads[a]
            newer == request.threads[b]
        IN  (/\ older.op = "train_user_model" /\ older.pc = "done" /\ older.success
             /\ newer.op = "train_user_model" /\ newer.pc = "done" /\ newer.success
             /\ older.user = newer.user
             /\ older.rows.valid < newer.rows.valid)
            => /\ user_models[newer.user] = newer.built
               /\ models_file.user_models[newer.user] = newer.built

\* C27: over any sequence of train, predict, feedback, retrain and
\* recommendation operations a user who has a model keeps having one, and
\* whenever the entry of a user changes it becomes a complete record of one
\* training run started by that operation: its sample counts are those of the
\* user's well-formed rows (at most ten here, so both are the row count).
C27_ModelNeverRemoved ==
    [][\A u \in Users :
          /\ user_models[u] # NoModel => user_models'[u] # NoModel
          /\ user_models'[u] # user_models[u] =>
                /\ ret'.user = u /\ ret'.trainings >= 1
                /\ DOMAIN user_models'[u] =
                       {"kind", "accuracy", "training_samples", "test_samples"}
                /\ user_models'[u].kind = "model"
                /\ user_models'[u].accuracy \in 0..100
                /\ feedback'[u].valid <= 10
                /\ user_models'[u].training_samples = feedback'[u].valid
                /\ user_models'[u].test_samples = feedback'[u].valid]_vars

\* A training run of a user who has a model failed at fitting and the user
\* still has the model.
C27_Witness ==
    /\ ret.op = "train_user_model" /\ ~ret.success
    /\ ret.run.fault = "fit" /\ ret.fitted > 0
    /\ user_models[ret.user] # NoModel


\* The value entry i holds when key is missing from the part of a supplied
\* context named part.
MissingTakes(part, key, i, default) ==
    key \notin DOMAIN Get(ret.context.entries, part, <<>>)
        => ret.features[i] = default

\* C28: in the vector extract_track_features returns for a supplied context,
\* the empty one included, every mood and musical-context value missing from
\* the context has its default: intensity 0.5, valence 0, arousal 0.5,
\* energy_preference 0.5, familiarity_preference 0.5.
C28_MissingContextDefaults ==
    (ret.op = "extract_track_features" /\ ret.success /\ ret.context.kind = "dict") =>
        /\ MissingTakes("mood_analysis", "intensity", 31, FeatureOne \div 2)
        /\ MissingTakes("mood_analysis", "valence", 32, 0)
        /\ MissingTakes("mood_analysis", "arousal", 33, FeatureOne \div 2)
        /\ MissingTakes("musical_context", "energy_preference", 34, FeatureOne \div 2)
        /\ MissingTakes("musical_context", "familiarity_preference", 35,
                        FeatureOne \div 2)

\* C29: for the accuracy of the snapshot at hand, the value
\* _calculate_hybrid_confidence returned is not above the value it returns for
\* the same accuracy and any larger training-sample count, in particular from
\* 4 to 5 and from 19 to 20 samples.
C29_ConfidenceGrowsWithSamples ==
    (ret.op = "_calculate_hybrid_confidence" /\ ret.context.rl_insights # NoInsights) =>
        \A more \in ret.context.rl_insights.training_samples..MaxSamples :
            ret.value <= _calculate_hybrid_confidence(
                            [ret.context EXCEPT !.rl_insights.training_samples = more])

\* C30: when a request scores a candidate by an artist that an interaction
\* logged before the request recommended, the window the request computes
\* the candidate's diversity penalty from (the recent_interactions of the
\* snapshot it uses) contains that interaction, however soon after the
\* logging the request is made.
C30_PenaltySeesLoggedInteractions ==
    [][ret'.op = "get_recommendations" =>
          \A i \in 1..Len(interactions[ret'.user]), c \in 1..Len(ret'.scored) :
              (\E r \in Range(json_loads(interactions[ret'.user][i].recommendations)) :
                    Lower(r.artist) = Lower(ret'.scored[c].artist))
                  => interactions[ret'.user][i]
                         \in Range(ret'.context.recent_interactions)]_vars

====
